---- MODULE Spec2Model ----
(***************************************************************************)
(* A model of orbitbot's retrieval core.                                   *)
(*                                                                         *)
(* VectorStore (src/backend/services/vector_store.py) keeps a FAISS        *)
(* IndexFlatL2, a Python list of chunk metadata that is meant to be        *)
(* position-aligned with it, and three files on disk (faiss_index.bin,     *)
(* metadata.pkl, config.json).  Python's None is modelled by a record      *)
(* whose `present' field is FALSE (for the index and the files) and by 0   *)
(* for the dimension (the code tests it with `if self.dimension').         *)
(*                                                                         *)
(* The request handlers of src/app.py are followed as coroutines on one    *)
(* event loop, and DocumentProcessor.chunk_text                            *)
(* (src/backend/services/document_processor.py) one loop iteration at a    *)
(* time; each has a specification of its own further down.                 *)
(***************************************************************************)
EXTENDS Integers, Sequences, FiniteSets, TLC

\* ---------------------------------------------------------------- bounds
MaxBatch == 2      \* chunks handed to one add_documents call
MaxVectors == 2    \* add_documents is not called beyond this many stored vectors
MaxK == 2          \* top_k of a search is in 1..MaxK

Names == {"a.txt", "b.txt"}

\* The embeddings of the model: two of width 1 and one of width 2, so that
\* an embedder of another dimension can be swapped in.
Vectors == {<<0>>, <<1>>, <<0, 0>>}

Widths == {Len(v) : v \in Vectors}

\* A chunk as handed to add_documents.  `text' stands for everything of the
\* chunk but its embedding and its source tag (text, chunk_id, positions);
\* it is represented by the vector the embedder produced for it, so that
\* "the metadata at position i describes the vector at position i" can be
\* stated.  The store never reads it.  A chunk without the "embedding" key
\* has has_embedding = FALSE; one such chunk per source file is enough.
Chunks ==
    {[file_name |-> f, text |-> v, has_embedding |-> TRUE, embedding |-> v] :
        f \in Names, v \in Vectors}
    \cup
    {[file_name |-> f, text |-> <<0>>, has_embedding |-> FALSE,
      embedding |-> <<>>] : f \in Names}

\* A batch is the chunks of one document, as process_document_background
\* hands them over: they share the source tag.
Batches ==
    {b \in UNION {[1..n -> Chunks] : n \in 0..MaxBatch} :
        \A i \in 1..Len(b) : b[i].file_name = b[1].file_name}

\* The file whose write (or unlink) fails during an operation, if any.
WriteFailures == {"index", "metadata", "config"}

Failures == {"none"} \cup WriteFailures

\* vs, disk, last: the vector store, its files, and the last call on it.
\* tasks, running: the requests in flight in the web application and the
\* one its event loop is executing.  chunker: a chunk_text call.
\* documents: the processing_status column of the documents table.
VARIABLES vs, disk, last, tasks, running, chunker, documents

vars == <<vs, disk, last, tasks, running, chunker, documents>>

\* ------------------------------------------------------------ FAISS index
NoIndex == [present |-> FALSE, d |-> 0, vecs |-> <<>>]

\* faiss.IndexFlatL2(dimension): an empty flat index of width d.
IndexFlatL2(dimension) == [present |-> TRUE, d |-> dimension, vecs |-> <<>>]

ntotal(index) == Len(index.vecs)

\* Squared Euclidean distance, as IndexFlatL2 computes it.
RECURSIVE L2sqrFrom(_, _, _)
L2sqrFrom(x, y, i) ==
    IF i > Len(x) THEN 0
    ELSE (x[i] - y[i]) * (x[i] - y[i]) + L2sqrFrom(x, y, i + 1)

L2sqr(x, y) == L2sqrFrom(x, y, 1)

\* The largest distance between two model vectors of one width.
MaxDistance ==
    LET ds == {L2sqr(p[1], p[2]) :
                 p \in {r \in Vectors \X Vectors : Len(r[1]) = Len(r[2])}}
    IN  CHOOSE m \in ds : \A n \in ds : n <= m

\* The distance FAISS reports for a result slot it could not fill (FLT_MAX):
\* a value above 1 + every distance between two model vectors.
FltMax == MaxDistance + 2

\* ------------------------------------------------------------------ files
EmptyDisk ==
    [index_file |-> [present |-> FALSE, index |-> NoIndex],
     metadata_file |-> [present |-> FALSE, metadata |-> <<>>],
     config_file |-> [present |-> FALSE, dimension |-> 0]]

\* The VectorStore object right after lines 19-21 of __init__.
NewObject(dimension) ==
    [index |-> NoIndex, metadata |-> <<>>, dimension |-> dimension]

\* An operation's running state: the object, the disk, the exception that is
\* propagating ("none" when there is none) and the value returned.
St(v, d) == [vs |-> v, disk |-> d, err |-> "none", ret |-> 0]

Raise(st, e) == [st EXCEPT !.err = e]

\* --------------------------------------------------- persistence helpers
\* _create_new_index: a fresh empty index, an empty metadata list, the
\* dimension, and then the config file; a failed write raises with the
\* object already reset.
create_new_index(st, dimension, fail) ==
    LET v == [index |-> IndexFlatL2(dimension), metadata |-> <<>>,
              dimension |-> dimension]
        s1 == [st EXCEPT !.vs = v]
    IN  IF fail = "config" THEN Raise(s1, "OSError")
        ELSE [s1 EXCEPT !.disk.config_file =
                          [present |-> TRUE, dimension |-> dimension]]

\* _load_index: the index and the metadata are taken from their files; the
\* dimension is overwritten by the config file's when that file exists.
\* Nothing compares the three.
load_index(st) ==
    LET d == st.disk
        v1 == [st.vs EXCEPT !.index = d.index_file.index,
                            !.metadata = d.metadata_file.metadata]
        v2 == IF d.config_file.present
              THEN [v1 EXCEPT !.dimension = d.config_file.dimension]
              ELSE v1
    IN  [st EXCEPT !.vs = v2]

\* _load_or_create_index
load_or_create_index(st, fail) ==
    IF st.disk.index_file.present /\ st.disk.metadata_file.present
    THEN load_index(st)
    ELSE IF st.vs.dimension # 0
         THEN create_new_index(st, st.vs.dimension, fail)
         ELSE st

\* __init__(dimension) over the files found on disk.
VectorStoreInit(d, dimension, fail) ==
    load_or_create_index(St(NewObject(dimension), d), fail)

\* _save_index: the index file is written first, the metadata file second,
\* each in place; the config file is not written.
save_index(st, fail) ==
    IF fail = "index" THEN Raise(st, "OSError")
    ELSE LET s1 == [st EXCEPT !.disk.index_file =
                                [present |-> TRUE, index |-> st.vs.index]]
         IN  IF fail = "metadata" THEN Raise(s1, "OSError")
             ELSE [s1 EXCEPT !.disk.metadata_file =
                               [present |-> TRUE, metadata |-> st.vs.metadata]]

\* clear leaving config.json where it is.
clear_keeping_config(st, fail) ==
    LET d == st.disk
    IN  IF d.index_file.present /\ fail = "index" THEN Raise(st, "OSError")
        ELSE LET s1 == [st EXCEPT !.disk.index_file = EmptyDisk.index_file]
        IN  IF d.metadata_file.present /\ fail = "metadata"
            THEN Raise(s1, "OSError")
            ELSE [s1 EXCEPT !.disk.metadata_file = EmptyDisk.metadata_file,
                            !.vs = NewObject(0)]

\* clear: unlink the three files in order, then reset the object; a failing
\* unlink raises before the object is reset.
clear(st, fail) ==
    LET d == st.disk
    IN  IF d.index_file.present /\ fail = "index" THEN Raise(st, "OSError")
        ELSE LET s1 == [st EXCEPT !.disk.index_file = EmptyDisk.index_file]
        IN  IF d.metadata_file.present /\ fail = "metadata"
            THEN Raise(s1, "OSError")
            ELSE LET s2 == [s1 EXCEPT !.disk.metadata_file =
                                         EmptyDisk.metadata_file]
            IN  IF d.config_file.present /\ fail = "config"
                THEN Raise(s2, "OSError")
                ELSE [s2 EXCEPT !.disk.config_file = EmptyDisk.config_file,
                                !.vs = NewObject(0)]

\* ---------------------------------------------------------- add_documents
\* The metadata kept for a chunk: the chunk without its embedding.
ChunkMetadata(chunk) == [file_name |-> chunk.file_name, text |-> chunk.text]

\* np.array(embeddings) is a matrix only when every row has the same width.
SameWidth(chunks) ==
    \A i \in 1..Len(chunks) :
        Len(chunks[i].embedding) = Len(chunks[1].embedding)

\* index.add(embeddings) takes only rows as wide as the index; with the width
\* check dropped it would take any.
WidthAcceptedUnchecked(index, embeddings) == TRUE

\* index.add(embeddings): FAISS asserts that the rows are as wide as the index.
WidthAccepted(index, embeddings) == Len(embeddings[1]) = index.d

\* Lines 108-144: the body of add_documents for a batch that is not empty.
add_chunks(st, chunks, fail) ==
    IF \E i \in 1..Len(chunks) : ~chunks[i].has_embedding
    THEN Raise(st, "ValueError")
    ELSE IF ~SameWidth(chunks) THEN Raise(st, "ValueError")
    ELSE
      LET embeddings == [i \in 1..Len(chunks) |-> chunks[i].embedding]
          chunk_metadata == [i \in 1..Len(chunks) |-> ChunkMetadata(chunks[i])]
          s1 == IF ~st.vs.index.present
                THEN create_new_index(st, Len(embeddings[1]), fail)
                ELSE st
      IN  IF s1.err # "none" THEN s1
          ELSE IF ~WidthAccepted(s1.vs.index, embeddings)
          THEN Raise(s1, "AssertionError")
          ELSE save_index(
                 [s1 EXCEPT !.vs.index.vecs = @ \o embeddings,
                            !.vs.metadata = @ \o chunk_metadata],
                 fail)

\* add_documents saving the files even for an empty batch.
add_documents_saving_empty(st, chunks, fail) ==
    IF chunks = <<>> THEN save_index(st, fail)
    ELSE add_chunks(st, chunks, fail)

\* Lines 105-106: an empty batch returns at once.
add_documents(st, chunks, fail) ==
    IF chunks = <<>> THEN st
    ELSE add_chunks(st, chunks, fail)

\* ----------------------------------------------------------------- search
\* The positions of the k vectors nearest to q, nearest first, equal
\* distances in insertion order.
RECURSIVE Nearest(_, _, _, _)
Nearest(vecs, q, cand, k) ==
    IF k = 0 \/ cand = {} THEN <<>>
    ELSE LET best == CHOOSE i \in cand : \A j \in cand :
                        \/ L2sqr(q, vecs[i]) < L2sqr(q, vecs[j])
                        \/ L2sqr(q, vecs[i]) = L2sqr(q, vecs[j]) /\ i <= j
         IN  <<best>> \o Nearest(vecs, q, cand \ {best}, k - 1)

\* index.search(query, k): always k slots; a slot with no neighbour left has
\* label -1 and distance FLT_MAX.  Labels are 0-based.
index_search(index, q, k) ==
    LET near == Nearest(index.vecs, q, 1..ntotal(index), k)
    IN  [i \in 1..k |->
            IF i <= Len(near)
            THEN [distance |-> L2sqr(q, index.vecs[near[i]]), idx |-> near[i] - 1]
            ELSE [distance |-> FltMax, idx |-> -1]]

\* float(1 / (1 + distance)) as the fraction num/den; in single precision
\* 1 + FLT_MAX is FLT_MAX.
Similarity(distance) ==
    [num |-> 1, den |-> IF distance = FltMax THEN FltMax ELSE 1 + distance]

\* Python's list[idx] for an idx that is in range: a negative idx counts
\* from the end.
PyItem(list, idx) == IF idx < 0 THEN list[Len(list) + idx + 1] ELSE list[idx + 1]

\* The loop of search over the slots from i on.  Each result is the
\* metadata entry plus similarity_score and rank; idx and distance are kept
\* beside them to say which stored vector the slot matched.
RECURSIVE Results(_, _, _)
Results(hits, metadata, i) ==
    IF i > Len(hits) THEN <<>>
    ELSE (IF hits[i].idx < Len(metadata)
          THEN <<[file_name |-> PyItem(metadata, hits[i].idx).file_name,
                  text |-> PyItem(metadata, hits[i].idx).text,
                  similarity_score |-> Similarity(hits[i].distance),
                  rank |-> i,
                  idx |-> hits[i].idx,
                  distance |-> hits[i].distance]>>
          ELSE <<>>)
         \o Results(hits, metadata, i + 1)

search(v, query_embedding, top_k) ==
    IF ~v.index.present \/ ntotal(v.index) = 0 THEN <<>>
    ELSE IF Len(query_embedding) # v.index.d THEN <<>>
    ELSE LET hits == index_search(v.index, query_embedding, top_k)
         IN  IF \E i \in 1..Len(hits) :
                    hits[i].idx < Len(v.metadata) /\ hits[i].idx < -Len(v.metadata)
             THEN <<>>
             ELSE Results(hits, v.metadata, 1)

\* -------------------------------------------------------------- get_stats
get_stats(v, d) ==
    [total_vectors |-> IF v.index.present THEN ntotal(v.index) ELSE 0,
     dimension |-> v.dimension,
     index_file_exists |-> d.index_file.present,
     metadata_count |-> Len(v.metadata)]

\* ----------------------------------------------------- delete_by_filename
\* The scan of delete_by_filename with its comparison inverted.
indices_to_remove_inverted(metadata, filename) ==
    {i \in 1..Len(metadata) : metadata[i].file_name # filename}

\* Lines 209-213: the positions whose source tag equals filename.
indices_to_remove(metadata, filename) ==
    {i \in 1..Len(metadata) : metadata[i].file_name = filename}

RECURSIVE Keep(_, _, _)
Keep(metadata, remove, i) ==
    IF i > Len(metadata) THEN <<>>
    ELSE (IF i \in remove THEN <<>> ELSE <<metadata[i]>>)
         \o Keep(metadata, remove, i + 1)

\* The survivors of the metadata list, in order (lines 224-228).
new_metadata(metadata, remove) == Keep(metadata, remove, 1)

\* delete_by_filename saving the survivors even when there are none.
DeleteRebuildAlwaysSaves(st, remove, fail) ==
    save_index([st EXCEPT !.vs.metadata = new_metadata(st.vs.metadata, remove)],
               fail)

\* Lines 230-237: the metadata list is replaced, the index object is left as
\* it is, and the result is saved, or cleared when nothing survives.
DeleteRebuild(st, remove, fail) ==
    LET s1 == [st EXCEPT !.vs.metadata = new_metadata(st.vs.metadata, remove)]
    IN  IF s1.vs.metadata # <<>> THEN save_index(s1, fail) ELSE clear(s1, fail)

delete_by_filename(st, filename, fail) ==
    LET remove == indices_to_remove(st.vs.metadata, filename)
    IN  IF remove = {} THEN [st EXCEPT !.ret = 0]
        ELSE IF st.vs.index.present /\ ntotal(st.vs.index) > 0
        THEN LET s2 == DeleteRebuild(st, remove, fail)
             IN  IF s2.err # "none" THEN s2
                 ELSE [s2 EXCEPT !.ret = Cardinality(remove)]
        ELSE [st EXCEPT !.ret = 0]

\* ------------------------------------------------- the other components
\* While the store is followed on its own, no request is in flight in the
\* application and chunk_text is not being called.
MaxTasks == 3      \* requests in flight at once

TaskIds == 1..MaxTasks

NoTask == [kind |-> "none", pc |-> "none"]

NoTasks == [t \in TaskIds |-> NoTask]

NotChunking == [pc |-> "idle"]

\* No document has been uploaded: the table has no row for any file name.
NoDocuments == [name \in Names |-> "none"]

\* ---------------------------------------------------------------- actions
\* `last' records the call that produced the current state: the exception it
\* raised, what it returned, and its arguments (the batch of an add only
\* when the add succeeded).
Call(op, st, batch, name, q, k, results) ==
    [op |-> op, err |-> st.err, ret |-> st.ret, batch |-> batch,
     name |-> name, q |-> q, k |-> k, results |-> results]

Commit(st) ==
    /\ vs' = st.vs
    /\ disk' = st.disk
    /\ UNCHANGED <<tasks, running, chunker, documents>>

\* The store is constructed once, over an empty storage directory, with the
\* embedder's dimension (0 when none is given).
Init ==
    \E dimension \in {0} \cup Widths :
        LET st == VectorStoreInit(EmptyDisk, dimension, "none")
        IN  /\ vs = st.vs
            /\ disk = st.disk
            /\ last = Call("init", st, <<>>, "", <<>>, 0, <<>>)
            /\ tasks = NoTasks
            /\ running = 0
            /\ chunker = NotChunking
            /\ documents = NoDocuments

\* The config file is written only when the index is created, so its write
\* can fail only then.
AddWithin(chunks, fail, cap) ==
    /\ fail = "config" => ~vs.index.present
    /\ (IF vs.index.present THEN ntotal(vs.index) ELSE 0) + Len(chunks) <= cap
    /\ LET st == add_documents(St(vs, disk), chunks, fail)
       IN  /\ Commit(st)
           /\ last' = Call("add", st, IF st.err = "none" THEN chunks ELSE <<>>,
                        "", <<>>, 0, <<>>)

Add(chunks, fail) == AddWithin(chunks, fail, MaxVectors)

Search(q, k) ==
    /\ UNCHANGED <<vs, disk, tasks, running, chunker, documents>>
    /\ last' = Call("search", St(vs, disk), <<>>, "", q, k, search(vs, q, k))

\* Nothing is written or unlinked when no entry matches.
Delete(filename, fail) ==
    LET st == delete_by_filename(St(vs, disk), filename, fail)
    IN  /\ fail # "none" => \E i \in 1..Len(vs.metadata) :
                                vs.metadata[i].file_name = filename
        /\ Commit(st)
        /\ last' = Call("delete", st, <<>>, filename, <<>>, 0, <<>>)

Clear(fail) ==
    LET st == clear(St(vs, disk), fail)
    IN  /\ fail # "none" => disk[fail \o "_file"].present
        /\ Commit(st)
        /\ last' = Call("clear", st, <<>>, "", <<>>, 0, <<>>)

\* Each operation is taken with every file system call succeeding, or with
\* the write (unlink) of one file failing.
Next ==
    \/ \E chunks \in Batches : Add(chunks, "none")
    \/ \E q \in Vectors, k \in 1..MaxK : Search(q, k)
    \/ \E filename \in Names : Delete(filename, "none")
    \/ Clear("none")
    \/ \E chunks \in Batches, fail \in WriteFailures : Add(chunks, fail)
    \/ \E filename \in Names, fail \in WriteFailures : Delete(filename, fail)
    \/ \E fail \in WriteFailures : Clear(fail)

Spec == Init /\ [][Next]_vars

\* The same store when no file system call ever fails, followed one stored
\* vector further.
NextNoFault ==
    \/ \E chunks \in Batches : AddWithin(chunks, "none", MaxVectors + 1)
    \/ \E q \in Vectors, k \in 1..MaxK : Search(q, k)
    \/ \E filename \in Names : Delete(filename, "none")
    \/ Clear("none")

SpecNoFault == Init /\ [][NextNoFault]_vars

\* ================================================================= claims
Stats == get_stats(vs, disk)

\* Every metadata entry sits at the position of the vector it was ingested
\* with, and the two sequences are equally long.
Aligned(v) ==
    /\ Len(v.metadata) = ntotal(v.index)
    /\ \A i \in 1..Len(v.metadata) : v.index.vecs[i] = v.metadata[i].text

\* C1: after every add and every deleteByDocument call (here: every one
\* that returned), stats() reports a metadata count equal to the number of
\* stored vectors.
C1_MetadataCountEqualsVectors ==
    (last.op \in {"add", "delete"} /\ last.err = "none") =>
        Stats.metadata_count = Stats.total_vectors

\* C2: after an add or a deleteByDocument that returned, position i of the
\* metadata describes the chunk whose vector is stored at position i of the
\* index; and every search hit that matched a stored vector carries the
\* metadata of the chunk that vector was ingested with.
C2_PositionsCorrespond ==
    /\ (last.op \in {"add", "delete"} /\ last.err = "none") =>
         \A i \in 1..Len(vs.metadata) :
            i <= ntotal(vs.index) /\ vs.index.vecs[i] = vs.metadata[i].text
    /\ last.op = "search" =>
         \A n \in 1..Len(last.results) :
            last.results[n].idx >= 0 =>
                vs.index.vecs[last.results[n].idx + 1] = last.results[n].text

\* C3: a deleteByDocument(name) that matches n > 0 entries returns n, lowers
\* the number of stored vectors by n, and leaves in the index exactly the
\* vectors of the surviving entries, so that no later search can match a
\* vector ingested for name.
C3_DeleteRebuildsFromSurvivors ==
    [][(/\ last'.op = "delete"
        /\ last'.err = "none"
        /\ Aligned(vs)
        /\ indices_to_remove(vs.metadata, last'.name) # {})
       => (/\ last'.ret = Cardinality(indices_to_remove(vs.metadata, last'.name))
           /\ get_stats(vs', disk').total_vectors
                = Stats.total_vectors - last'.ret
           /\ Aligned(vs')
           /\ \A i \in 1..ntotal(vs'.index) :
                 vs'.metadata[i].file_name # last'.name)]_vars

\* C4: after an add that returned, a search on the exact vector of an entry
\* of the batch returns at rank 1, with distance 0 and similarity 1, the
\* metadata of a chunk ingested with that vector: the entry itself, unless an
\* equal vector was stored before it (equal distances are ranked in
\* insertion order).
C4_AddThenSearchFindsEntry ==
    (last.op = "add" /\ last.err = "none") =>
        \A i \in 1..Len(last.batch), k \in 1..MaxK :
            LET q == last.batch[i].embedding
                r == search(vs, q, k)
                pos == ntotal(vs.index) - Len(last.batch) + i
            IN  /\ r # <<>>
                /\ r[1].rank = 1
                /\ r[1].distance = 0
                /\ r[1].similarity_score = [num |-> 1, den |-> 1]
                /\ r[1].text = last.batch[i].text
                /\ \/ r[1].file_name = last.batch[i].file_name
                   \/ \E j \in 1..(pos - 1) : vs.index.vecs[j] = q

\* C5: search(q, k) returns at most k results and at most totalVectors
\* results.
C5_SearchResultCountBounded ==
    last.op = "search" =>
        /\ Len(last.results) <= last.k
        /\ Len(last.results) <= Stats.total_vectors

\* C6: when k exceeds the number of stored vectors, search returns exactly
\* one result per stored vector, each stored position once.
C6_SearchReturnsAllWhenKExceeds ==
    (last.op = "search" /\ Len(last.q) = vs.index.d
        /\ last.k > Stats.total_vectors) =>
        /\ Len(last.results) = Stats.total_vectors
        /\ \A p \in 0..(Stats.total_vectors - 1) :
              Cardinality({n \in 1..Len(last.results) :
                              last.results[n].idx = p}) = 1

\* C7: deleteByDocument(name) for a name that matches no stored entry
\* returns 0 and leaves the vectors, the metadata, the dimension and the
\* persisted files unchanged.
C7_DeleteWithoutMatchChangesNothing ==
    [][(/\ last'.op = "delete"
        /\ \A i \in 1..Len(vs.metadata) : vs.metadata[i].file_name # last'.name)
       => (/\ last'.err = "none"
           /\ last'.ret = 0
           /\ vs' = vs
           /\ disk' = disk)]_vars

\* A delete that matched nothing has run on a store that holds entries of
\* another document and has files on disk.
C7_Witness ==
    /\ last.op = "delete"
    /\ last.err = "none"
    /\ last.ret = 0
    /\ vs.metadata # <<>>
    /\ \A i \in 1..Len(vs.metadata) : vs.metadata[i].file_name # last.name
    /\ disk.index_file.present
    /\ disk.metadata_file.present

\* C8: a deleteByDocument that returns after removing the last surviving
\* entries leaves the empty, un-sized state (no index, no metadata, no
\* dimension, no persisted file); and an add in the un-sized state is never
\* refused for the width of its batch and, when it returns, has sized the
\* index to that width.
C8_DeleteOfLastEntriesUnsizes ==
    [][/\ (/\ last'.op = "delete"
           /\ last'.err = "none"
           /\ vs.metadata # <<>>
           /\ \A i \in 1..Len(vs.metadata) : vs.metadata[i].file_name = last'.name)
          => (/\ last'.ret = Len(vs.metadata)
              /\ vs' = NewObject(0)
              /\ disk' = EmptyDisk
              /\ get_stats(vs', disk').total_vectors = 0
              /\ get_stats(vs', disk').metadata_count = 0
              /\ get_stats(vs', disk').dimension = 0)
       /\ (last'.op = "add" /\ ~vs.index.present)
          => (/\ last'.err # "AssertionError"
              /\ (last'.err = "none" /\ last'.batch # <<>>)
                 => (/\ vs'.index.present
                     /\ vs'.index.d = Len(last'.batch[1].embedding)
                     /\ vs'.dimension = Len(last'.batch[1].embedding)
                     /\ vs'.index.vecs
                          = [i \in 1..Len(last'.batch) |-> last'.batch[i].embedding]
                     /\ Len(vs'.metadata) = Len(last'.batch)))]_vars

\* A delete has removed every entry of a store that held some, and returned.
C8_Witness ==
    /\ last.op = "delete"
    /\ last.err = "none"
    /\ last.ret > 0
    /\ vs = NewObject(0)
    /\ disk = EmptyDisk

\* C9: an add that raises, for whatever reason, leaves the in-memory vectors
\* and metadata exactly as they were before the call.
C9_FailedAddStoresNothing ==
    [][(last'.op = "add" /\ last'.err # "none")
       => (/\ vs'.index.vecs = vs.index.vecs
           /\ vs'.metadata = vs.metadata)]_vars

\* C10: on an existing index, an add returns only when every vector of the
\* batch has the index's width; an add refused for its width raises and
\* leaves the vectors, the metadata, the dimension and the files unchanged.
C10_WidthMismatchRejected ==
    [][(last'.op = "add" /\ vs.index.present)
       => (/\ (last'.err = "none" /\ last'.batch # <<>>)
              => (/\ \A i \in 1..Len(last'.batch) :
                        Len(last'.batch[i].embedding) = vs.index.d
                  /\ vs'.index.d = vs.index.d
                  /\ vs'.dimension = vs.dimension)
           /\ last'.err = "AssertionError"
              => (vs' = vs /\ disk' = disk))]_vars

\* An add has been refused for its width by an index that holds vectors.
C10_Witness ==
    /\ last.op = "add"
    /\ last.err = "AssertionError"
    /\ vs.index.present
    /\ ntotal(vs.index) > 0
    /\ Len(vs.metadata) > 0

\* -------------------------------------------------------- persisted files
\* Number of entries a persisted file holds; a file that does not exist
\* holds none.
PersistedVectors(d) ==
    IF d.index_file.present THEN ntotal(d.index_file.index) ELSE 0

PersistedEntries(d) ==
    IF d.metadata_file.present THEN Len(d.metadata_file.metadata) ELSE 0

\* C11: at every instant, a failed write between the two files included,
\* the persisted index file and the persisted metadata file hold the same
\* number of entries.
C11_PersistedCountsAgree == PersistedVectors(disk) = PersistedEntries(disk)

FilesPresent(d) ==
    {f \in {"index_file", "metadata_file", "config_file"} : d[f].present}

\* C13: whenever no operation is in progress, either all three persisted
\* files exist or none of them does.
C13_AllThreeFilesOrNone == Cardinality(FilesPresent(disk)) \in {0, 3}

\* ------------------------------------------------- construction over files
\* The process is started again: a new object is constructed with the
\* embedder's dimension over whatever the previous one left on disk, and
\* replaces it. `last' keeps the dimension the constructor was given.
Restart(dimension) ==
    LET st == VectorStoreInit(disk, dimension, "none")
    IN  /\ Commit(st)
        /\ last' = [op |-> "restart", err |-> st.err, ret |-> st.ret,
                    dimension |-> dimension]

\* Restarts are followed over stores of at most MaxStored vectors.
MaxStored == 1

NextRestart ==
    \/ \E chunks \in Batches : AddWithin(chunks, "none", MaxStored)
    \/ \E filename \in Names : Delete(filename, "none")
    \/ Clear("none")
    \/ \E dimension \in {0} \cup Widths : Restart(dimension)
    \/ \E chunks \in Batches, fail \in WriteFailures :
           AddWithin(chunks, fail, MaxStored)
    \/ \E filename \in Names, fail \in WriteFailures : Delete(filename, fail)
    \/ \E fail \in WriteFailures : Clear(fail)

SpecRestart == Init /\ [][NextRestart]_vars

\* What stats() reports of the index itself.
IndexStats(v, d) ==
    LET stats == get_stats(v, d)
    IN  <<stats.total_vectors, stats.dimension, stats.metadata_count>>

\* C12: an index constructed over the persisted files, with the dimension
\* of the index that wrote them, reports the same stats() (total vectors,
\* dimension, metadata count) and returns the same search results for every
\* fixed query as that in-memory index.
C12_RoundTrip ==
    [][(last'.op = "restart" /\ last'.dimension = vs.dimension)
         => /\ IndexStats(vs', disk') = IndexStats(vs, disk)
            /\ \A q \in Vectors, k \in 1..MaxK :
                   search(vs', q, k) = search(vs, q, k)]_vars

\* The persisted index and the persisted config exist and name different
\* dimensions.
DimensionsDisagree(d) ==
    /\ d.index_file.present
    /\ d.metadata_file.present
    /\ d.config_file.present
    /\ d.config_file.dimension # d.index_file.index.d

\* C14: a construction over persisted files whose dimensions disagree
\* detects it: it raises, or at least does not take the persisted index as
\* its loaded index.
C14_DisagreeingFilesRejected ==
    [][(last'.op = "restart" /\ DimensionsDisagree(disk))
         => \/ last'.err # "none"
            \/ vs'.index # disk.index_file.index]_vars

\* C15: a construction with an embedding dimension different from the
\* dimension of the persisted index leaves an empty index sized to the new
\* dimension, never the persisted one.
C15_NewDimensionForcesFreshIndex ==
    [][(/\ last'.op = "restart"
        /\ disk.index_file.present
        /\ disk.metadata_file.present
        /\ last'.dimension # 0
        /\ last'.dimension # disk.index_file.index.d)
         => /\ vs'.index = IndexFlatL2(last'.dimension)
            /\ vs'.metadata = <<>>
            /\ vs'.dimension = last'.dimension]_vars

\* ============================================================ application
\* src/app.py: every request handler and the background task are
\* coroutines (`async def') served by the one event loop uvicorn.run
\* starts.  A coroutine holds the loop's thread from the moment it is
\* resumed until it awaits or finishes; `running' is the task holding it
\* (0: none).  A task's pc names where it stands:
\*   "handler"    request accepted, handler body not yet entered
\*   "respond"    upload_document has returned; the response is being sent
\*                and process_document_background is scheduled after it
\*   "adding"     inside vector_store.add_documents       (line 243)
\*   "searching"  inside vector_store.search              (line 291)
\*   "llm"        awaiting llm_handler.generate_response  (line 324)
\*   "deleting"   inside vector_store.delete_by_filename  (line 388)
\* The calls on the store are split into their entry and their return, so
\* that two of them being under way at once is a state of the model.
Kinds == {"upload", "query", "delete"}

\* Where a coroutine can be waiting for the loop.
Suspended == {"handler", "respond", "llm"}

\* Handlers declared with a plain `def' would run on any pool thread.
OnAnyThread(t) == TRUE

\* The `async def' bodies run on the event loop's thread only.
OnLoopThread(t) == running = t

Goto(t, pc) ==
    /\ tasks' = [tasks EXCEPT ![t] = IF pc = "done" THEN NoTask
                                     ELSE [@ EXCEPT !.pc = pc]]
    /\ UNCHANGED <<vs, disk, last, chunker, documents>>

\* The coroutine awaits or finishes: the loop's thread is free again.
Yield == running' = 0

At(t, kind, pc) == tasks[t].kind = kind /\ tasks[t].pc = pc

\* A request arrives.
Request(t, kind) ==
    /\ tasks[t] = NoTask
    /\ tasks' = [tasks EXCEPT ![t] = [kind |-> kind, pc |-> "handler"]]
    /\ UNCHANGED <<vs, disk, last, chunker, documents, running>>

\* The idle loop resumes a waiting coroutine.
Resume(t) ==
    /\ running = 0
    /\ tasks[t].pc \in Suspended
    /\ running' = t
    /\ UNCHANGED <<vs, disk, last, chunker, documents, tasks>>

\* upload_document: validates, stores the file, schedules the background
\* task and returns (or raises HTTPException).
UploadDocument(t, accepted) ==
    /\ OnLoopThread(t)
    /\ At(t, "upload", "handler")
    /\ Goto(t, IF accepted THEN "respond" ELSE "done")
    /\ Yield

\* process_document_background up to the call of add_documents: status,
\* process_file, chunk_text, encode_chunks; any of them may raise.
ProcessDocument(t, raised) ==
    /\ OnLoopThread(t)
    /\ At(t, "upload", "respond")
    /\ Goto(t, IF raised THEN "done" ELSE "adding")
    /\ IF raised THEN Yield ELSE UNCHANGED running

\* add_documents returns or raises; the status is updated and the task ends.
AddReturn(t) ==
    /\ OnLoopThread(t)
    /\ At(t, "upload", "adding")
    /\ Goto(t, "done")
    /\ Yield

\* query_documents up to the call of search (an empty question is refused).
QueryDocuments(t, refused) ==
    /\ OnLoopThread(t)
    /\ At(t, "query", "handler")
    /\ Goto(t, IF refused THEN "done" ELSE "searching")
    /\ IF refused THEN Yield ELSE UNCHANGED running

\* search returns: without results the handler answers at once, with
\* results it awaits the language model.
SearchReturn(t, found) ==
    /\ OnLoopThread(t)
    /\ At(t, "query", "searching")
    /\ Goto(t, IF found THEN "llm" ELSE "done")
    /\ Yield

\* The language model has answered; the handler records it and returns.
QueryAnswer(t) ==
    /\ OnLoopThread(t)
    /\ At(t, "query", "llm")
    /\ Goto(t, "done")
    /\ Yield

\* delete_document up to the call of delete_by_filename (404 when the
\* document is unknown).
DeleteDocument(t, known) ==
    /\ OnLoopThread(t)
    /\ At(t, "delete", "handler")
    /\ Goto(t, IF known THEN "deleting" ELSE "done")
    /\ IF known THEN UNCHANGED running ELSE Yield

\* delete_by_filename returns or raises; the handler finishes.
DeleteReturn(t) ==
    /\ OnLoopThread(t)
    /\ At(t, "delete", "deleting")
    /\ Goto(t, "done")
    /\ Yield

NextApp ==
    \/ \E t \in TaskIds, kind \in Kinds : Request(t, kind)
    \/ \E t \in TaskIds : Resume(t)
    \/ \E t \in TaskIds, accepted \in BOOLEAN : UploadDocument(t, accepted)
    \/ \E t \in TaskIds, raised \in BOOLEAN : ProcessDocument(t, raised)
    \/ \E t \in TaskIds : AddReturn(t)
    \/ \E t \in TaskIds, refused \in BOOLEAN : QueryDocuments(t, refused)
    \/ \E t \in TaskIds, found \in BOOLEAN : SearchReturn(t, found)
    \/ \E t \in TaskIds : QueryAnswer(t)
    \/ \E t \in TaskIds, known \in BOOLEAN : DeleteDocument(t, known)
    \/ \E t \in TaskIds : DeleteReturn(t)

SpecApp == Init /\ [][NextApp]_vars

\* The task is inside a call on the shared index.
InOperation(t) == tasks[t].pc \in {"adding", "searching", "deleting"}

\* C16: in no interleaving of upload processing, delete requests and query
\* requests are two of add, deleteByDocument and search under way at once
\* on the shared index.
C16_OperationsSerialized ==
    Cardinality({t \in TaskIds : InOperation(t)}) <= 1

\* An add is under way while a query is in flight (awaiting the language
\* model) and a delete request is waiting to be served.
C16_Witness ==
    \E t, u, w \in TaskIds :
        /\ At(t, "upload", "adding")
        /\ At(u, "query", "llm")
        /\ At(w, "delete", "handler")

\* ================================================================ chunker
\* DocumentProcessor.chunk_text (src/backend/services/document_processor.py,
\* lines 115-161), one loop iteration per step.  A text is a sequence of
\* characters; Python's zero-based position p is element p + 1.
MaxTextLen == 4       \* short texts: every text of up to this many characters
MaxChunkSize == 3     \* chunk_size and chunk_overlap tried on short texts
MaxIterations == 7    \* the loop is followed for this many iterations

Characters == {"a", " ", "\n"}

\* What str.strip() removes.
Whitespace == {" ", "\n"}

ShortTexts == UNION {[1..n -> Characters] : n \in 0..MaxTextLen}

\* A text of n characters with a blank at the given positions.
TextWith(n, blanks) == [p \in 1..n |-> IF p - 1 \in blanks THEN " " ELSE "a"]

\* A text of n characters with a blank at every position p = r modulo w.
Pattern(n, w, r) == TextWith(n, {p \in 0..(n - 1) : p % w = r})

\* Texts long enough for the lookback to be more than one character, with
\* blanks around the ends proposed for chunk sizes 20 and 30.
SnapTexts == {TextWith(45, blanks) : blanks \in SUBSET {18, 19, 20, 28, 29, 30}}

\* The same with a newline, instead of a blank, near a proposed end.
NewlineTexts ==
    {[t EXCEPT ![p + 1] = "\n"] :
        t \in {TextWith(45, {}), TextWith(45, {18}), TextWith(45, {28})},
        p \in {19, 20, 29, 30}}

\* The 1000-character texts of the documented example: no blank, words of
\* several lengths, a blank at the far edge of every lookback window, and
\* long runs of blanks.
ExampleTexts ==
    {Pattern(1000, w, 0) : w \in {1, 2, 10, 26, 1000}}
    \cup {Pattern(1000, 182, 50), Pattern(1000, 150, 149)}
    \cup {TextWith(1000, {}), TextWith(1000, 1..999), TextWith(1000, 300..700),
          TextWith(1000, 0..600)}

\* chunk_text's inputs: the text, and the processor's configuration.
Inputs ==
    {[text |-> t, chunk_size |-> cs, chunk_overlap |-> co] :
        t \in ShortTexts, cs \in 1..MaxChunkSize, co \in 0..MaxChunkSize}
    \cup
    {[text |-> t, chunk_size |-> cs, chunk_overlap |-> co] :
        t \in SnapTexts \cup NewlineTexts, cs \in {20, 30},
        co \in {0, 5, 19, 29}}
    \cup
    {[text |-> t, chunk_size |-> 256, chunk_overlap |-> 50] :
        t \in ExampleTexts}

\* text[j]: a negative j counts from the end; outside -len..len-1 the
\* access raises IndexError.
IndexInRange(text, j) == -Len(text) <= j /\ j < Len(text)

CharAt(text, j) == text[(IF j < 0 THEN j + Len(text) ELSE j) + 1]

\* A slice bound as Python normalises it.
SliceBound(n, j) ==
    IF j < 0 THEN (IF j + n < 0 THEN 0 ELSE j + n)
    ELSE IF j > n THEN n ELSE j

\* text[start:end]
PySlice(text, start, end) ==
    LET lo == SliceBound(Len(text), start)
        hi == SliceBound(Len(text), end)
    IN  IF lo >= hi THEN <<>> ELSE SubSeq(text, lo + 1, hi)

\* s.strip()
Strip(s) ==
    LET keep == {i \in 1..Len(s) : s[i] \notin Whitespace}
    IN  IF keep = {} THEN <<>>
        ELSE SubSeq(s, CHOOSE i \in keep : \A j \in keep : i <= j,
                       CHOOSE i \in keep : \A j \in keep : i >= j)

\* A lookback over half the chunk instead.
LookbackHalf(chunk_size) == chunk_size \div 2

\* range(min(100, self.chunk_size // 10))
Lookback(chunk_size) ==
    IF chunk_size \div 10 < 100 THEN chunk_size \div 10 ELSE 100

\* Lines 132-135: the first i in the lookback range with text[end - i] a
\* space moves the end there; no such i leaves it.  The scan stops at the
\* first i that is a space or that is not an index of the text.
SnapEnd(text, end, lookback) ==
    LET stops == {i \in 0..(lookback - 1) :
                     \/ ~IndexInRange(text, end - i)
                     \/ CharAt(text, end - i) = " "}
    IN  IF stops = {} THEN [err |-> "none", end |-> end]
        ELSE LET i == CHOOSE i \in stops : \A j \in stops : i <= j
             IN  IF IndexInRange(text, end - i)
                 THEN [err |-> "none", end |-> end - i]
                 ELSE [err |-> "IndexError", end |-> end]

\* The proposed end one character further, never snapped.
ChunkEndTooFar(text, start, chunk_size) ==
    [err |-> "none", end |-> start + chunk_size + 1]

\* Lines 127-135.
ChunkEnd(text, start, chunk_size) ==
    LET end == start + chunk_size
    IN  IF end < Len(text) THEN SnapEnd(text, end, Lookback(chunk_size))
        ELSE [err |-> "none", end |-> end]

\* The next start one character too far, and with the overlap forgotten.
NextStartSkipping(end, chunk_overlap) == end - chunk_overlap + 1

NextStartNoOverlap(end, chunk_overlap) == end

\* Line 157: start = end - self.chunk_overlap
NextStart(end, chunk_overlap) == end - chunk_overlap

\* chunk_text(text) is called on a processor configured with chunk_size and
\* chunk_overlap (lines 13-14, 115-124).  `iterations' counts the loop
\* iterations run so far.
ChunkText(input) ==
    /\ chunker.pc = "idle"
    /\ chunker' = [pc |-> IF Strip(input.text) = <<>> THEN "returned" ELSE "loop",
                   text |-> input.text,
                   chunk_size |-> input.chunk_size,
                   chunk_overlap |-> input.chunk_overlap,
                   start |-> 0, chunk_id |-> 0, chunks |-> <<>>,
                   iterations |-> 0, err |-> "none"]
    /\ UNCHANGED <<vs, disk, last, tasks, running, documents>>

\* One iteration of the while loop (lines 126-159).  The chunk's token
\* count and the copied document metadata are left out; `iteration' records
\* which iteration emitted the chunk.
Iterate ==
    /\ chunker.pc = "loop"
    /\ chunker.start < Len(chunker.text)
    /\ chunker.iterations < MaxIterations
    /\ LET c == chunker
           snapped == ChunkEnd(c.text, c.start, c.chunk_size)
           end == snapped.end
           chunk_text == Strip(PySlice(c.text, c.start, end))
           chunk == [text |-> chunk_text, chunk_id |-> c.chunk_id,
                     start_pos |-> c.start, end_pos |-> end,
                     iteration |-> c.iterations + 1]
           start == NextStart(end, c.chunk_overlap)
       IN  chunker' =
             IF snapped.err # "none"
             THEN [c EXCEPT !.pc = "raised", !.err = snapped.err,
                            !.iterations = @ + 1]
             ELSE [c EXCEPT
                     !.chunks = IF chunk_text # <<>> THEN Append(@, chunk) ELSE @,
                     !.chunk_id = IF chunk_text # <<>> THEN @ + 1 ELSE @,
                     !.start = start,
                     !.iterations = @ + 1,
                     !.pc = IF start >= Len(c.text) THEN "returned" ELSE "loop"]
    /\ UNCHANGED <<vs, disk, last, tasks, running, documents>>

NextChunker ==
    \/ \E input \in Inputs : ChunkText(input)
    \/ Iterate

\* chunk_text does not touch the store: it is followed beside an un-sized one.
InitChunker == Init /\ vs = NewObject(0)

SpecChunker == InitChunker /\ [][NextChunker]_vars

\* chunk_text has been called (the record then has every field).
Called == chunker.pc # "idle"

Returned == chunker.pc = "returned"

\* C17: the start offset strictly advances on every iteration of the loop,
\* for every text and every configuration.
C17_StartAdvances ==
    [][(chunker.pc = "loop" /\ chunker'.pc \in {"loop", "returned"})
         => chunker'.start > chunker.start]_vars

\* Position p of the text lies inside the range of an emitted chunk.
Covered(p) ==
    \E i \in 1..Len(chunker.chunks) :
        chunker.chunks[i].start_pos <= p /\ p < chunker.chunks[i].end_pos

\* C18: when chunk_text has returned, every position of the text that holds
\* a non-whitespace character lies inside [start_pos, end_pos) of at least
\* one emitted chunk.
C18_ChunksCoverText ==
    Returned =>
        \A p \in 0..(Len(chunker.text) - 1) :
            chunker.text[p + 1] \notin Whitespace => Covered(p)

\* Several chunks were emitted, and a whitespace-only slice was dropped.
C18_Witness ==
    /\ Returned
    /\ Len(chunker.chunks) >= 2
    /\ chunker.iterations > Len(chunker.chunks)

\* Chunk i + 1 starts chunk_overlap before the end of chunk i.
OverlapKept(i) ==
    chunker.chunks[i + 1].start_pos =
        chunker.chunks[i].end_pos - chunker.chunk_overlap

\* C19 as stated: every pair of consecutive emitted chunks, other than the
\* pair ending in the final chunk, overlaps by chunk_overlap.
C19_ConsecutiveChunksOverlap ==
    Returned => \A i \in 1..(Len(chunker.chunks) - 2) : OverlapKept(i)

\* C19, amended: every pair of consecutive emitted chunks between which no
\* whitespace-only slice was dropped overlaps by chunk_overlap, the pair
\* ending in the final chunk included.
C19_AdjacentSlicesOverlap ==
    Called =>
        \A i \in 1..(Len(chunker.chunks) - 1) :
            chunker.chunks[i + 1].iteration = chunker.chunks[i].iteration + 1
                => OverlapKept(i)

\* Three chunks or more with a positive overlap, one pair cut from adjacent
\* slices and another with a dropped slice in between.
C19_Witness ==
    /\ Returned
    /\ chunker.chunk_overlap > 0
    /\ \E i, j \in 1..(Len(chunker.chunks) - 1) :
          /\ chunker.chunks[i + 1].iteration = chunker.chunks[i].iteration + 1
          /\ chunker.chunks[j + 1].iteration > chunker.chunks[j].iteration + 1

\* The documented example: a 1000-character text, chunk_size 256,
\* chunk_overlap 50.
Example ==
    /\ Called
    /\ Len(chunker.text) = 1000
    /\ chunker.chunk_size = 256
    /\ chunker.chunk_overlap = 50

StartsNonDecreasing ==
    \A i \in 1..(Len(chunker.chunks) - 1) :
        chunker.chunks[i].start_pos <= chunker.chunks[i + 1].start_pos

\* C20 as stated: the example yields chunks whose starts are non-decreasing
\* and whose count is 5 within plus or minus 1.
C20_ExampleChunkCount ==
    (Example /\ Returned)
        => /\ StartsNonDecreasing
           /\ Len(chunker.chunks) \in 4..6

\* C20, amended: on a text that is not all whitespace the example cuts 5 or
\* 6 slices (never a seventh) and emits those that are not whitespace-only:
\* the emitted chunks and the dropped slices together number 5 or 6, there
\* are at most 6 chunks, and their starts are non-decreasing.
C20_ExampleSliceCount ==
    Example =>
        /\ chunker.iterations <= 6
        /\ StartsNonDecreasing
        /\ (Returned /\ Strip(chunker.text) # <<>>)
              => /\ chunker.iterations \in {5, 6}
                 /\ Len(chunker.chunks) <= chunker.iterations

\* The example run on a text whose blanks sit at the far edge of every
\* lookback window: 6 chunks; and on a text with a long run of blanks: a
\* dropped slice.
C20_Witness ==
    /\ Example
    /\ Returned
    /\ \/ Len(chunker.chunks) = 6
       \/ chunker.iterations > Len(chunker.chunks)

\* ----------------------------------------------------- store: later claims
\* C23: in every reachable state, whatever file write would fail, add of an
\* empty batch returns without error and leaves the vectors, the metadata
\* sequence, the configured dimension and every persisted file unchanged.
C23_EmptyAddIsNoOp ==
    \A fail \in Failures :
        LET st == add_documents(St(vs, disk), <<>>, fail)
        IN  /\ st.err = "none"
            /\ st.vs = vs
            /\ st.disk = disk

\* An empty batch was added to a store that holds a vector.
C23_Witness ==
    /\ last.op = "add"
    /\ last.err = "none"
    /\ last.batch = <<>>
    /\ vs.index.present
    /\ ntotal(vs.index) > 0

\* C24: after every clear() that returns, from whatever state it was
\* called in, none of the three persisted files exists, stats() reports
\* zero vectors, zero metadata entries and no dimension, and every search
\* returns an empty list.
C24_ClearResetsEverything ==
    (last.op = "clear" /\ last.err = "none")
        => /\ FilesPresent(disk) = {}
           /\ IndexStats(vs, disk) = <<0, 0, 0>>
           /\ ~vs.index.present
           /\ \A q \in Vectors, k \in 1..MaxK : search(vs, q, k) = <<>>

\* clear() has returned.
C24_Witness == last.op = "clear" /\ last.err = "none"

\* C25: the results of every search are in ascending order of distance,
\* and the result at list position i carries rank i.
C25_ResultsRankedInOrder ==
    last.op = "search" =>
        /\ \A i \in 1..Len(last.results) : last.results[i].rank = i
        /\ \A i \in 1..(Len(last.results) - 1) :
               last.results[i].distance <= last.results[i + 1].distance

\* --------------------------------------------------- chunker: later claims
\* An iteration of the loop that ran to its end.
IterationStep ==
    chunker.pc = "loop" /\ chunker'.pc \in {"loop", "returned"}

\* The end the iteration proposed, and the end it settled on.
RawEnd == chunker.start + chunker.chunk_size

SettledEnd == chunker'.start + chunker.chunk_overlap

\* How far back from the proposed end the lookback window (text[end],
\* text[end - 1], ...) holds a whitespace character.
WhitespaceBack(text, end, lookback) ==
    {i \in 0..(lookback - 1) :
        IndexInRange(text, end - i) /\ CharAt(text, end - i) \in Whitespace}

\* C26: an iteration whose proposed end falls inside the text settles on
\* the nearest whitespace character of the lookback window, or on the
\* proposed end when the window holds none; a proposed end at or beyond the
\* end of the text is kept.
C26_EndSnapsToWhitespace ==
    [][IterationStep =>
         LET back == WhitespaceBack(chunker.text, RawEnd,
                                    Lookback(chunker.chunk_size))
         IN  IF RawEnd < Len(chunker.text) /\ back # {}
             THEN \E i \in back : /\ \A j \in back : i <= j
                                  /\ SettledEnd = RawEnd - i
             ELSE SettledEnd = RawEnd]_vars

\* A configuration with 0 <= chunk_overlap < chunk_size.
OverlapBelowSize ==
    /\ Called
    /\ 0 <= chunker.chunk_overlap
    /\ chunker.chunk_overlap < chunker.chunk_size

\* C27 as stated: under such a configuration every emitted chunk has
\* 0 <= start_pos < end_pos <= len(text).
C27_OffsetsInsideText ==
    OverlapBelowSize =>
        \A i \in 1..Len(chunker.chunks) :
            /\ 0 <= chunker.chunks[i].start_pos
            /\ chunker.chunks[i].start_pos < chunker.chunks[i].end_pos
            /\ chunker.chunks[i].end_pos <= Len(chunker.text)

\* C27, amended: under such a configuration every emitted chunk starts
\* inside the text and is at most chunk_size long,
\* 0 <= start_pos < len(text) and start_pos < end_pos <= start_pos +
\* chunk_size; its end_pos lies beyond the text only when it is the
\* unsnapped start_pos + chunk_size.
C27_OffsetsStartInsideText ==
    OverlapBelowSize =>
        \A i \in 1..Len(chunker.chunks) :
            LET chunk == chunker.chunks[i]
            IN  /\ 0 <= chunk.start_pos
                /\ chunk.start_pos < Len(chunker.text)
                /\ chunk.start_pos < chunk.end_pos
                /\ chunk.end_pos <= chunk.start_pos + chunker.chunk_size
                /\ chunk.end_pos > Len(chunker.text)
                      => chunk.end_pos = chunk.start_pos + chunker.chunk_size

\* A returned call under such a configuration whose last chunk ends beyond
\* the text while an earlier one was snapped back to a blank.
C27_Witness ==
    /\ OverlapBelowSize
    /\ Returned
    /\ \E i, j \in 1..Len(chunker.chunks) :
          /\ chunker.chunks[i].end_pos > Len(chunker.text)
          /\ chunker.chunks[j].end_pos
                < chunker.chunks[j].start_pos + chunker.chunk_size

\* =============================================== documents and the index
\* The handlers of src/app.py followed together with the documents table
\* (src/database/services.py) and the vector store they share.  In this
\* specification a task also carries the file name of its document; each
\* file name is uploaded once, so a row of the table is known by its file
\* name.  `last' is the handler that ended last, with what stood in its way
\* and the response it gave.
\*   "handler"     request accepted, handler body not yet run
\*   "respond"     upload_document has returned with the row "pending";
\*                 process_document_background runs after the response
\*   "processing"  process_document_background has written "processing"
\*                 (line 232) and holds the loop's thread
\*   "llm"         query_documents awaits generate_response (line 324)
MaxRequests == 2   \* requests in flight at once, with the documents followed
MaxChunks == 1     \* chunks of one uploaded document
MaxDocuments == 1  \* documents uploaded in one run

RequestIds == 1..MaxRequests

Statuses == {"pending", "processing", "completed", "failed"}

\* Where process_document_background can raise before add_documents.
Stages == {"extraction", "chunking", "embedding"}

\* encode_chunks gives every chunk an embedding of the model's width.
EmbeddingWidth == 1

\* The chunks of a document as they reach add_documents.
DocumentChunks(name) ==
    {b \in Batches :
        /\ Len(b) <= MaxChunks
        /\ \A i \in 1..Len(b) : /\ b[i].file_name = name
                                /\ b[i].has_embedding
                                /\ Len(b[i].embedding) = EmbeddingWidth}

\* DocumentService.update_document_status: the row is looked up and
\* written; a missing row or a failed commit returns False, which no caller
\* reads.
update_document_status(docs, name, status, committed) ==
    IF docs[name] \in Statuses /\ committed
    THEN [docs EXCEPT ![name] = status]
    ELSE docs

\* Chunks of the file are in the metadata list, where search finds them.
Tagged(v, name) == \E i \in 1..Len(v.metadata) : v.metadata[i].file_name = name

Response(status, detail) == [status |-> status, detail |-> detail]

\* The handler of task t ends.
Answer(t, failure, response) ==
    /\ tasks' = [tasks EXCEPT ![t] = NoTask]
    /\ last' = [op |-> tasks[t].kind, doc |-> tasks[t].doc,
                failure |-> failure, response |-> response]

\* A request arrives: an upload of a file not uploaded before, a delete of
\* a document, or a query.
Arrive(t, kind, name) ==
    /\ tasks[t] = NoTask
    /\ kind = "upload" =>
          /\ documents[name] = "none"
          /\ \A u \in RequestIds :
                tasks[u].kind = "upload" => tasks[u].doc # name
          /\ Cardinality({n \in Names : documents[n] # "none"})
               + Cardinality({u \in RequestIds : At(u, "upload", "handler")})
                  < MaxDocuments
    /\ tasks' = [tasks EXCEPT ![t] =
                    [kind |-> kind, pc |-> "handler", doc |-> name]]
    /\ UNCHANGED <<vs, disk, last, running, chunker, documents>>

\* upload_document (lines 159-223): the file is stored, create_document
\* inserts the row with status "pending", and the background task is
\* scheduled; a refused file or a failed insert answers with an error.
upload_document(t, accepted) ==
    /\ running = 0
    /\ At(t, "upload", "handler")
    /\ IF accepted
       THEN /\ documents' = [documents EXCEPT ![tasks[t].doc] = "pending"]
            /\ tasks' = [tasks EXCEPT ![t] = [@ EXCEPT !.pc = "respond"]]
            /\ UNCHANGED last
       ELSE /\ Answer(t, "none", Response(400, "Upload error"))
            /\ UNCHANGED documents
    /\ UNCHANGED <<vs, disk, running, chunker>>

\* process_document_background, line 232: the status is set to
\* "processing".  The coroutine does not await, so it keeps the thread.
mark_processing(t, committed) ==
    /\ running = 0
    /\ At(t, "upload", "respond")
    /\ documents' = update_document_status(documents, tasks[t].doc,
                                           "processing", committed)
    /\ tasks' = [tasks EXCEPT ![t] = [@ EXCEPT !.pc = "processing"]]
    /\ running' = t
    /\ UNCHANGED <<vs, disk, last, chunker>>

\* process_document_background, lines 235-267: process_file, chunk_text and
\* encode_chunks (one of them may raise), add_documents, and the status
\* "completed"; any exception is answered by the status "failed".
process_document_background(t, chunks, raised, fail, committed) ==
    /\ running = t
    /\ At(t, "upload", "processing")
    /\ chunks \in DocumentChunks(tasks[t].doc)
    /\ fail = "config" => ~vs.index.present
    /\ LET st == IF raised \in Stages THEN Raise(St(vs, disk), raised)
                 ELSE add_documents(St(vs, disk), chunks, fail)
           status == IF st.err = "none" THEN "completed" ELSE "failed"
       IN  /\ vs' = st.vs
           /\ disk' = st.disk
           /\ documents' = update_document_status(documents, tasks[t].doc,
                                                  status, committed)
           /\ Answer(t, st.err, Response(0, status))
    /\ running' = 0
    /\ UNCHANGED chunker

\* What stands between the question and a list of search results.
QueryFailure(unavailable, q) ==
    IF unavailable THEN "model unavailable"
    ELSE IF ~vs.index.present \/ ntotal(vs.index) = 0 THEN "empty index"
    ELSE IF Len(q) # vs.index.d THEN "search failed"
    ELSE "none"

\* query_documents up to its await (lines 276-324): an empty question is
\* refused with 400; encode_single_text raises when the model is not
\* loaded, which the handler turns into 500; search returns [] on an empty
\* index and on its own failure, which is answered with the "couldn't
\* find" text and no sources.
query_documents(t, q, k, refused, unavailable) ==
    /\ running = 0
    /\ At(t, "query", "handler")
    /\ IF refused
       THEN Answer(t, "none", Response(400, "Question cannot be empty"))
       ELSE IF unavailable
       THEN Answer(t, QueryFailure(unavailable, q), Response(500, "Query error"))
       ELSE IF search(vs, q, k) = <<>>
       THEN Answer(t, QueryFailure(unavailable, q),
                   Response(200, "I couldn't find any relevant information"))
       ELSE /\ tasks' = [tasks EXCEPT ![t] = [@ EXCEPT !.pc = "llm"]]
            /\ UNCHANGED last
    /\ UNCHANGED <<vs, disk, running, chunker, documents>>

\* query_documents after its await (lines 324-350): the language model's
\* answer is returned with the sources, or its exception becomes 500.
generate_response(t, raised) ==
    /\ running = 0
    /\ At(t, "query", "llm")
    /\ IF raised THEN Answer(t, "llm", Response(500, "Query error"))
       ELSE Answer(t, "none", Response(200, "answer"))
    /\ UNCHANGED <<vs, disk, running, chunker, documents>>

\* delete_document (lines 374-415): 404 without a row; delete_by_filename
\* on the store; then the row is deleted, and 500 is answered when either
\* fails.
delete_document(t, fail, committed) ==
    /\ running = 0
    /\ At(t, "delete", "handler")
    /\ IF documents[tasks[t].doc] \notin Statuses
       THEN /\ Answer(t, "none", Response(404, "Document not found"))
            /\ UNCHANGED <<vs, disk, documents>>
       ELSE LET st == delete_by_filename(St(vs, disk), tasks[t].doc, fail)
                deleted == st.err = "none" /\ committed
            IN  /\ fail # "none" => Tagged(vs, tasks[t].doc)
                /\ vs' = st.vs
                /\ disk' = st.disk
                /\ documents' = IF deleted
                                THEN [documents EXCEPT ![tasks[t].doc] = "deleted"]
                                ELSE documents
                /\ IF deleted
                   THEN Answer(t, "none", Response(200, "Deleted document"))
                   ELSE Answer(t, IF committed THEN st.err ELSE "database",
                               Response(500, "Delete error"))
    /\ UNCHANGED <<running, chunker>>

NextPipeline ==
    \/ \E t \in RequestIds, name \in Names : Arrive(t, "upload", name)
    \/ \E t \in RequestIds, name \in Names : Arrive(t, "delete", name)
    \/ \E t \in RequestIds : Arrive(t, "query", "")
    \/ \E t \in RequestIds, accepted \in BOOLEAN : upload_document(t, accepted)
    \/ \E t \in RequestIds, committed \in BOOLEAN : mark_processing(t, committed)
    \/ \E t \in RequestIds, chunks \in Batches,
          raised \in Stages \cup {"none"}, fail \in Failures,
          committed \in BOOLEAN :
            process_document_background(t, chunks, raised, fail, committed)
    \/ \E t \in RequestIds, q \in Vectors, k \in 1..MaxK,
          refused, unavailable \in BOOLEAN :
            query_documents(t, q, k, refused, unavailable)
    \/ \E t \in RequestIds, raised \in BOOLEAN : generate_response(t, raised)
    \/ \E t \in RequestIds, fail \in Failures, committed \in BOOLEAN :
            delete_document(t, fail, committed)

\* app.py lines 98-100: the store is constructed with the dimension of the
\* embedding model.
InitPipeline == Init /\ vs.dimension = EmbeddingWidth

SpecPipeline == InitPipeline /\ [][NextPipeline]_vars

\* -------------------------------------------------- claims on documents
\* The status changes the lifecycle allows (models.py line 38).
StatusOrder ==
    {<<"pending", "processing">>, <<"processing", "completed">>,
     <<"processing", "failed">>}

\* C21: a document's status only ever changes along pending -> processing
\* -> completed or failed: no status is skipped or revisited, and completed
\* and failed are never left.
C21_StatusFollowsOrder ==
    [][\A name \in Names :
          (/\ documents[name] \in Statuses
           /\ documents'[name] \in Statuses
           /\ documents'[name] # documents[name])
              => <<documents[name], documents'[name]>> \in StatusOrder]_vars

\* The failures of a query that the specification wants degraded.
QueryTimeFailures == {"model unavailable", "empty index", "search failed"}

\* The reply of lines 295-308: the "couldn't find" text, no sources.
NoRelevantResults ==
    Response(200, "I couldn't find any relevant information")

\* C22: a query that meets an empty index, a failing search or an
\* unavailable embedding model is answered with the explicit "no relevant
\* results" reply, never with a request-ending error.
C22_QueryFailuresDegrade ==
    (last.op = "query" /\ last.failure \in QueryTimeFailures)
        => last.response = NoRelevantResults

\* A search returns a chunk of the file.
Searchable(name) ==
    \E q \in Vectors, k \in 1..MaxK :
        \E i \in 1..Len(search(vs, q, k)) : search(vs, q, k)[i].file_name = name

\* C28: when the processing of a document has ended with status failed,
\* the index holds no chunk tagged with that document and no search
\* returns one.
C28_FailedLeavesNoChunks ==
    \A name \in Names :
        documents[name] = "failed" => ~Tagged(vs, name) /\ ~Searchable(name)

\* C29: once a delete request for a document has succeeded, the index
\* holds no chunk tagged with the document's file name and no search
\* returns one, whatever the document's own processing does afterwards.
C29_DeletedStaysDeleted ==
    \A name \in Names :
        documents[name] = "deleted" => ~Tagged(vs, name) /\ ~Searchable(name)

\* ------------------------------------------------------ fair scheduling
\* The background task of request t runs to its end: Starlette runs it on
\* the loop once the response is sent, and it does not await.
BackgroundTask(t) ==
    \/ \E committed \in BOOLEAN : mark_processing(t, committed)
    \/ \E chunks \in Batches, raised \in Stages \cup {"none"},
          fail \in Failures, committed \in BOOLEAN :
            process_document_background(t, chunks, raised, fail, committed)

Fairness == \A t \in RequestIds : WF_vars(BackgroundTask(t))

SpecPipelineFair == InitPipeline /\ [][NextPipeline]_vars /\ Fairness

\* The background processing of the document has started.
ProcessingStarted(name) ==
    \E t \in RequestIds : At(t, "upload", "processing") /\ tasks[t].doc = name

\* The row has reached an end of its lifecycle, or is gone.
Settled(name) == documents[name] \in {"completed", "failed", "deleted"}

\* C30: every document whose background processing starts eventually
\* reaches status completed or failed (or has been deleted), when the task
\* is scheduled fairly.
C30_ProcessingSettles ==
    \A name \in Names : ProcessingStarted(name) ~> Settled(name)
====
